---- MODULE Spec2Model ----
(***************************************************************************)
(* The query classifier (data_science/agent.py, determine_query_type) and  *)
(* the retrieval result normalizer (sub_agents/retrieval/agent.py,         *)
(* format_retrieval_results) of the data science agent.                    *)
(*                                                                         *)
(* A query is a sequence of one-character strings.  A tool result is a     *)
(* tagged value (see the value constructors below).                        *)
(***************************************************************************)
EXTENDS Integers, Sequences, FiniteSets, TLC

VARIABLES
    pc,          \* position of the caller: "start", "classified", "formatted"
    query,       \* argument of determine_query_type
    query_type,  \* its return value ("unset" before the call)
    results,     \* argument of format_retrieval_results
    output       \* its outcome: a returned dict, or the exception it let escape

\* The process environment and the module globals of data_science/agent.py.
VARIABLES
    environ,       \* os.environ: the variables the configuration is read from
    MCP_SERVERS,   \* global MCP_SERVERS: None, or the loaded list of servers
    MODEL_CONFIG,  \* global MODEL_CONFIG: None, or the loaded model configuration
    config_ret,    \* what the last call of initialize_configurations returned
    config_calls,  \* number of calls of initialize_configurations so far
    agent_config   \* the configuration create_sub_agents built the agent from

VARIABLES
    servers,       \* create_mcp_toolsets: the configured servers (argument)
    auth_environ,  \* MCP_AUTH_TOKEN and MCP_AUTH_SCHEME of the environment
    network,       \* per server: what the network and the constructor did
    toolsets       \* create_mcp_toolsets: the list returned

toolset_vars == <<servers, auth_environ, network, toolsets>>

VARIABLES
    state,         \* the session state shared by the agents (key -> value)
    user_content,  \* callback_context.user_content of the current turn
    turns,         \* user turns so far
    tool_calls,    \* retrieval tool calls so far
    classified,    \* the root callback wrote query_type in the current turn
    last_stored,   \* the last tool response the after-tool callback stored
    delivered,     \* the tool response the agent got after the callback
    cb_raised      \* a callback raised

session_vars ==
    <<state, user_content, turns, tool_calls, classified, last_stored, delivered,
      cb_raised>>

config_vars ==
    <<environ, MCP_SERVERS, MODEL_CONFIG, config_ret, config_calls, agent_config>>

vars == <<pc, query, query_type, results, output, config_vars, toolset_vars, session_vars>>

\* ------------------------------------------------------------------ bounds
\* Number of fragments a generated query is concatenated from.
MaxFrags == 3

\* Number of rows of a generated tabular tool result.
MaxRows == 6

\* User turns and retrieval tool calls of a session.
MaxTurns == 2
MaxToolCalls == 2

\* Longest list of configured servers.
MaxServers == 3

\* Number of calls of initialize_configurations in a run.
MaxConfigCalls == 2

\* ======================================================== Python values
\* A tool result and everything inside it is a tagged value:
\*   int   a number                    str   a string: chars, then pad filler
\*   none  None                              characters "."
\*   list  a list of values            dict  a dict: a sequence of key/value
\*   bad   an object whose rendering         entries in insertion order, the
\*         (str, repr) raises                keys being field names
IntV(n) == [k |-> "int", n |-> n]
StrV(chars, pad) == [k |-> "str", s |-> chars, pad |-> pad]
NoneV == [k |-> "none"]
ListV(items) == [k |-> "list", items |-> items]
DictV(entries) == [k |-> "dict", entries |-> entries]
BadV == [k |-> "bad"]

\* ------------------------------------------------------- sequence helpers
Range(s) == {s[i] : i \in DOMAIN s}

Min(a, b) == IF a < b THEN a ELSE b

RECURSIVE Concat(_)
Concat(ss) == IF ss = <<>> THEN <<>> ELSE Head(ss) \o Concat(Tail(ss))

\* ================================================================= strings
UpperLetters ==
    <<"A", "B", "C", "D", "E", "F", "G", "H", "I", "J", "K", "L", "M",
      "N", "O", "P", "Q", "R", "S", "T", "U", "V", "W", "X", "Y", "Z">>

LowerLetters ==
    <<"a", "b", "c", "d", "e", "f", "g", "h", "i", "j", "k", "l", "m",
      "n", "o", "p", "q", "r", "s", "t", "u", "v", "w", "x", "y", "z">>

\* str.lower() on one character: an upper-case letter maps to its lower-case
\* letter, every other character is kept.
LowerChar(c) ==
    IF \E i \in DOMAIN UpperLetters : UpperLetters[i] = c
    THEN LowerLetters[CHOOSE i \in DOMAIN UpperLetters : UpperLetters[i] = c]
    ELSE c

\* query.lower()
Lower(s) == [i \in DOMAIN s |-> LowerChar(s[i])]

\* `keyword in text` on Python strings: contiguous substring containment.
Contains(text, keyword) ==
    \E i \in 0..(Len(text) - Len(keyword)) :
        SubSeq(text, i + 1, i + Len(keyword)) = keyword

\* ======================================================== query classifier
analysis_keywords ==
    << <<"a", "n", "a", "l", "y", "z", "e">>,
       <<"a", "n", "a", "l", "y", "s", "i", "s">>,
       <<"t", "r", "e", "n", "d">>,
       <<"p", "a", "t", "t", "e", "r", "n">>,
       <<"i", "n", "s", "i", "g", "h", "t">>,
       <<"v", "i", "s", "u", "a", "l", "i", "z", "e">>,
       <<"c", "h", "a", "r", "t">>,
       <<"g", "r", "a", "p", "h">>,
       <<"p", "l", "o", "t">>,
       <<"c", "o", "m", "p", "a", "r", "e">>,
       <<"c", "o", "r", "r", "e", "l", "a", "t", "i", "o", "n">>,
       <<"s", "t", "a", "t", "i", "s", "t", "i", "c">>,
       <<"a", "v", "e", "r", "a", "g", "e">>,
       <<"i", "n", "s", "i", "g", "h", "t">>,
       <<"i", "d", "e", "n", "t", "i", "f", "y">>,
       <<"r", "e", "l", "a", "t", "i", "o", "n", "s", "h", "i", "p">>,
       <<"p", "r", "e", "d", "i", "c", "t">>,
       <<"f", "o", "r", "e", "c", "a", "s", "t">> >>

retrieval_keywords ==
    << <<"l", "i", "s", "t">>,
       <<"s", "h", "o", "w">>,
       <<"g", "e", "t">>,
       <<"f", "e", "t", "c", "h">>,
       <<"r", "e", "t", "r", "i", "e", "v", "e">>,
       <<"d", "a", "t", "a">>,
       <<"t", "a", "b", "l", "e", "s">>,
       <<"s", "c", "h", "e", "m", "a">>,
       <<"m", "e", "t", "a", "d", "a", "t", "a">>,
       <<"r", "e", "c", "o", "r", "d", "s">>,
       <<"r", "o", "w", "s">>,
       <<"c", "o", "l", "u", "m", "n", "s">>,
       <<"s", "t", "r", "u", "c", "t", "u", "r", "e">>,
       <<"d", "e", "s", "c", "r", "i", "b", "e">> >>

context_keywords ==
    << <<"d", "a", "t", "a">>,
       <<"t", "a", "b", "l", "e">>,
       <<"d", "a", "t", "a", "b", "a", "s", "e">>,
       <<"s", "a", "l", "e", "s">>,
       <<"c", "u", "s", "t", "o", "m", "e", "r">> >>

\* query.lower() left out: the keywords are matched against the query as typed.
query_lower_as_typed(q) == q

query_lower(q) == Lower(q)

has_analysis(q) ==
    \E i \in DOMAIN analysis_keywords : Contains(query_lower(q), analysis_keywords[i])

\* The membership test written the wrong way round (query_lower in
\* retrieval_keywords): only a query that is exactly a keyword is a hit.
has_retrieval_whole_query(q) ==
    \E i \in DOMAIN retrieval_keywords : query_lower(q) = retrieval_keywords[i]

has_retrieval(q) ==
    \E i \in DOMAIN retrieval_keywords : Contains(query_lower(q), retrieval_keywords[i])

has_context(q) ==
    \E i \in DOMAIN context_keywords : Contains(query_lower(q), context_keywords[i])

\* Retrieval takes priority when both keyword sets match.
determine_query_type_retrieval_first(q) ==
    IF has_analysis(q) /\ has_retrieval(q) THEN "retrieval"
    ELSE IF has_analysis(q) THEN "analysis"
    ELSE IF has_retrieval(q) THEN "retrieval"
    ELSE IF has_context(q) THEN "retrieval"
    ELSE "analysis"

\* The general fallback defaults to retrieval.
determine_query_type_default_retrieval(q) ==
    IF has_analysis(q) /\ has_retrieval(q) THEN "analysis"
    ELSE IF has_analysis(q) THEN "analysis"
    ELSE IF has_retrieval(q) THEN "retrieval"
    ELSE IF has_context(q) THEN "retrieval"
    ELSE "retrieval"

\* A third value for queries that match both keyword sets.
determine_query_type_both(q) ==
    IF has_analysis(q) /\ has_retrieval(q) THEN "both"
    ELSE IF has_analysis(q) THEN "analysis"
    ELSE IF has_retrieval(q) THEN "retrieval"
    ELSE IF has_context(q) THEN "retrieval"
    ELSE "analysis"

determine_query_type(q) ==
    IF has_analysis(q) /\ has_retrieval(q) THEN "analysis"
    ELSE IF has_analysis(q) THEN "analysis"
    ELSE IF has_retrieval(q) THEN "retrieval"
    ELSE IF has_context(q) THEN "retrieval"
    ELSE "analysis"

\* ------------------------------------------------------- classifier inputs
Fragments ==
    << <<"a", "n", "a", "l", "y", "z", "e">>,
       <<"T", "r", "e", "n", "d">>,
       <<"C", "H", "A", "R", "T">>,
       <<"e", "r">>,
       <<"s", "h", "o", "w">>,
       <<"D", "A", "T", "A">>,
       <<"b", "a", "s", "e">>,
       <<"t", "a", "b", "l", "e">>,
       <<"s">>,
       <<"S", "a", "l", "e", "s">> >>

ExampleQueries ==
    << <<"s", "h", "o", "w", " ", "m", "e", " ", "t", "h", "e", " ", "s", "a", "l", "e", "s", " ", "d", "a", "t", "a">>,
       <<"a", "n", "a", "l", "y", "z", "e", " ", "a", "n", "d", " ", "s", "h", "o", "w", " ", "t", "h", "e", " ", "t", "r", "e", "n", "d">>,
       <<"w", "h", "a", "t", " ", "i", "s", " ", "t", "h", "e", " ", "w", "e", "a", "t", "h", "e", "r">>,
       <<"W", "h", "i", "c", "h", " ", "C", "u", "s", "t", "o", "m", "e", "r", " ", "b", "o", "u", "g", "h", "t", " ", "m", "o", "s", "t">> >>

\* Every concatenation of at most MaxFrags fragments (the empty query included),
\* and the example queries.
Queries ==
    {Concat(fs) : fs \in UNION {[1..n -> Range(Fragments)] : n \in 0..MaxFrags}}
        \cup Range(ExampleQueries)

NoResults == [k |-> "none"]
NoOutput == [outcome |-> "unset"]

\* The configuration as it is when the module has just been loaded and nothing
\* is set in the environment.
Unset == [k |-> "unset"]

EmptyEnviron ==
    [MCP_SERVERS_JSON |-> Unset, MODEL_TYPE |-> Unset, DEEPSEEK_API_KEY |-> Unset,
     VLLM_MODEL_NAME |-> Unset, VLLM_BASE_URL |-> Unset, VLLM_API_KEY |-> Unset]

ConfigIdle ==
    /\ environ = EmptyEnviron
    /\ MCP_SERVERS = NoneV
    /\ MODEL_CONFIG = NoneV
    /\ config_ret = NoneV
    /\ config_calls = 0
    /\ agent_config = NoneV

ToolsetsIdle ==
    /\ servers = <<>>
    /\ auth_environ = [MCP_AUTH_TOKEN |-> Unset, MCP_AUTH_SCHEME |-> Unset]
    /\ network = <<>>
    /\ toolsets = NoneV

Absent == [k |-> "absent"]

\* The session state of a new session: no key is set.
EmptyState ==
    [original_user_query |-> Absent, current_query |-> Absent, query_type |-> Absent,
     query_timestamp |-> Absent, retrieval_query |-> Absent,
     retrieved_raw_data |-> Absent, retrieved_data |-> Absent]

SessionIdle ==
    /\ state = EmptyState
    /\ user_content = NoneV
    /\ turns = 0
    /\ tool_calls = 0
    /\ classified = FALSE
    /\ last_stored = NoneV
    /\ delivered = NoneV
    /\ cb_raised = FALSE

InitClassify ==
    /\ pc = "start"
    /\ query \in Queries
    /\ query_type = "unset"
    /\ results = NoResults
    /\ output = NoOutput
    /\ ConfigIdle
    /\ ToolsetsIdle
    /\ SessionIdle

\* The caller invokes determine_query_type(query).
Classify ==
    /\ pc = "start"
    /\ query_type' = determine_query_type(query)
    /\ pc' = "classified"
    /\ UNCHANGED <<query, results, output, config_vars, toolset_vars, session_vars>>

NextClassify == Classify

SpecClassify == InitClassify /\ [][NextClassify]_vars

\* ================================================ operations on values
\* The characters of the field names the normalizer looks for.
KeyChars(key) ==
    CASE key = "rows" -> <<"r", "o", "w", "s">>
      [] key = "columns" -> <<"c", "o", "l", "u", "m", "n", "s">>
      [] key = "data" -> <<"d", "a", "t", "a">>
      [] key = "status" -> <<"s", "t", "a", "t", "u", "s">>
      [] key = "x" -> <<"x">>

HasKey(d, key) == \E i \in DOMAIN d.entries : d.entries[i].key = key

\* d[key] on a dict that has the key.
Get(d, key) == d.entries[CHOOSE i \in DOMAIN d.entries : d.entries[i].key = key].val

\* `key in v`: key membership on a dict, substring containment on a string,
\* element equality on a list; TypeError on anything else.
InRaises(v) == v.k \notin {"dict", "str", "list"}

In(key, v) ==
    CASE v.k = "dict" -> HasKey(v, key)
      [] v.k = "str" -> Contains(v.s, KeyChars(key))
      [] v.k = "list" -> \E i \in DOMAIN v.items : v.items[i] = StrV(KeyChars(key), 0)
      [] OTHER -> FALSE

\* v[key] with a string key: defined on a dict only (TypeError on str and list).
SubscriptRaises(v, key) == v.k # "dict" \/ ~HasKey(v, key)

\* len(v) is defined on list, str and dict.
Sized(v) == v.k \in {"list", "str", "dict"}

PyLen(v) ==
    CASE v.k = "list" -> Len(v.items)
      [] v.k = "str" -> Len(v.s) + v.pad
      [] v.k = "dict" -> Len(v.entries)

\* The elements iteration over v yields: the items of a list, the characters
\* of a string, the keys of a dict.
Elements(v) ==
    CASE v.k = "list" -> v.items
      [] v.k = "str" ->
            [i \in 1..(Len(v.s) + v.pad) |->
                StrV(<<IF i <= Len(v.s) THEN v.s[i] ELSE ".">>, 0)]
      [] v.k = "dict" -> [i \in DOMAIN v.entries |-> StrV(KeyChars(v.entries[i].key), 0)]

\* v[i] with an integer index i (counted from 0) below len(v): the item of a
\* list, the character of a string; KeyError on a dict with string keys.
IndexRaises(v) == v.k \notin {"list", "str"}

Index(v, i) == Elements(v)[i + 1]

\* ", ".join(v) needs an iterable of strings.
Joinable(v) == Sized(v) /\ \A i \in DOMAIN Elements(v) : Elements(v)[i].k = "str"

\* ------------------------------------------------------------- rendering
\* Whether str(v) and repr(v) return: they raise when v is or holds a bad
\* object.
RECURSIVE Renders(_)
Renders(v) ==
    CASE v.k = "bad" -> FALSE
      [] v.k = "list" -> \A i \in DOMAIN v.items : Renders(v.items[i])
      [] v.k = "dict" -> \A i \in DOMAIN v.entries : Renders(v.entries[i].val)
      [] OTHER -> TRUE

RECURSIVE Digits(_)
Digits(n) == IF n < 10 THEN 1 ELSE 1 + Digits(n \div 10)

RECURSIVE SumSeq(_)
SumSeq(ns) == IF ns = <<>> THEN 0 ELSE Head(ns) + SumSeq(Tail(ns))

\* ", " between the n parts of a list or dict rendering.
Separators(n) == IF n = 0 THEN 0 ELSE 2 * (n - 1)

\* Number of characters of repr(v): 12, 'text', None, [a, b], {'key': a}.
RECURSIVE ReprLen(_)
ReprLen(v) ==
    CASE v.k = "int" -> Digits(v.n)
      [] v.k = "str" -> Len(v.s) + v.pad + 2
      [] v.k = "none" -> 4
      [] v.k = "list" ->
            2 + SumSeq([i \in DOMAIN v.items |-> ReprLen(v.items[i])])
              + Separators(Len(v.items))
      [] v.k = "dict" ->
            2 + SumSeq([i \in DOMAIN v.entries |->
                          Len(v.entries[i].key) + 4 + ReprLen(v.entries[i].val)])
              + Separators(Len(v.entries))

\* Number of characters of str(v): a string is itself, anything else its repr.
StrLen(v) == IF v.k = "str" THEN Len(v.s) + v.pad ELSE ReprLen(v)

\* A text that renders a value: the first len characters of str(of).
\* str(v) is the whole rendering.
Str(v) == [text |-> "str", of |-> v, len |-> StrLen(v)]

\* text[:n]
Slice(text, n) == [text EXCEPT !.len = Min(text.len, n)]

\* ======================================================= result normalizer
\* Number of sample rows the raw text of a table shows at most.
SampleLimit == 5

\* Number of characters the raw text of a generic result keeps.
DataRawLimit == 2000

\* Number of characters the raw text of any other result keeps.
OpaqueRawLimit == 1000

\* The structured value None.
NoneStructured == [type |-> "None"]

\* The cap of five sample rows left out: every row is shown.
SampleSize_uncapped(rows) == PyLen(rows)

\* min(5, len(rows))
SampleSize(rows) == Min(SampleLimit, PyLen(rows))

\* The two counts taken from the wrong sequences.
TableStructured_counts_swapped(columns, rows) ==
    [type |-> "table", headers |-> columns, rows |-> rows,
     row_count |-> PyLen(columns), column_count |-> PyLen(rows)]

\* {"type": "table", "headers": ..., "rows": ..., "row_count": ..., "column_count": ...}
TableStructured(columns, rows) ==
    [type |-> "table", headers |-> columns, rows |-> rows,
     row_count |-> PyLen(rows), column_count |-> PyLen(columns)]

\* {"type": "json", "data": ...}
JsonStructured(data) == [type |-> "json", data |-> data]

\* dict(zip(columns, row)): the pairs (columns[i], row[i]) up to the shorter of
\* the two; a column name that comes again keeps its first position and takes
\* its last value.
ZipDict(columns, row) ==
    LET ks == Elements(columns)
        vs == Elements(row)
        m == Min(Len(ks), Len(vs))
        firsts == SelectSeq([i \in 1..m |-> i],
                            LAMBDA i : \A j \in 1..(i - 1) : ks[j] # ks[i])
        last(i) == CHOOSE j \in i..m :
                       /\ ks[j] = ks[i]
                       /\ \A h \in (j + 1)..m : ks[h] # ks[i]
    IN  [n \in DOMAIN firsts |-> [key |-> ks[firsts[n]], val |-> vs[last(firsts[n])]]]

\* Whether building the line of rows[i] raises: rows[i] itself, zip over a row
\* that is not iterable, or formatting a cell whose repr raises.
RowRaises(columns, rows, i) ==
    \/ IndexRaises(rows)
    \/ ~Sized(Index(rows, i))
    \/ \E n \in DOMAIN ZipDict(columns, Index(rows, i)) :
           ~Renders(ZipDict(columns, Index(rows, i))[n].val)

\* f"Row {i+1}: {dict(zip(columns, rows[i]))}\n"
RowLine(columns, rows, i) ==
    [line |-> "Row", no |-> i + 1, cells |-> ZipDict(columns, Index(rows, i))]

\* raw_text of the tabular branch, as its lines.
TableRaw(columns, rows) ==
    [text |-> "table",
     lines |->
        << [line |-> "Retrieved", rows |-> PyLen(rows), columns |-> PyLen(columns)],
           [line |-> "Columns", names |-> Elements(columns)],
           [line |-> "blank"],
           [line |-> "Sample rows", shown |-> SampleSize(rows), of |-> PyLen(rows)] >>
        \o [n \in 1..SampleSize(rows) |-> RowLine(columns, rows, n - 1)]]

\* Whether a statement of the tabular branch raises: the two subscripts, the
\* two len calls, join, or a sample row.
TabularRaises(r) ==
    \/ SubscriptRaises(r, "columns")
    \/ SubscriptRaises(r, "rows")
    \/ ~Sized(Get(r, "rows"))
    \/ ~Sized(Get(r, "columns"))
    \/ ~Joinable(Get(r, "columns"))
    \/ \E i \in 0..(SampleSize(Get(r, "rows")) - 1) :
           RowRaises(Get(r, "columns"), Get(r, "rows"), i)

\* Whether a statement of the generic branch raises.
GenericRaises(r) ==
    \/ SubscriptRaises(r, "data")
    \/ ~Renders(Get(r, "data"))

Completed(structured, raw) == [raised |-> FALSE, structured |-> structured, raw |-> raw]
Raised == [raised |-> TRUE]

\* The try block: its output when it runs to `return output`, Raised when one
\* of its statements raises.
TryBlock(r) ==
    IF InRaises(r) THEN Raised
    ELSE IF In("rows", r) /\ In("columns", r) THEN
        IF TabularRaises(r) THEN Raised
        ELSE Completed(TableStructured(Get(r, "columns"), Get(r, "rows")),
                       TableRaw(Get(r, "columns"), Get(r, "rows")))
    ELSE IF In("data", r) THEN
        IF GenericRaises(r) THEN Raised
        ELSE Completed(JsonStructured(Get(r, "data")),
                       Slice(Str(Get(r, "data")), DataRawLimit))
    ELSE
        IF ~Renders(r) THEN Raised
        ELSE Completed(NoneStructured, Slice(Str(r), OpaqueRawLimit))

\* The except handler: {"structured": None, "raw": str(results)}; str(results)
\* may raise in its turn, and that exception leaves the function.
ExceptHandler(r) ==
    IF Renders(r)
    THEN [outcome |-> "returned", structured |-> NoneStructured, raw |-> Str(r)]
    ELSE [outcome |-> "raised"]

format_retrieval_results(r) ==
    IF TryBlock(r).raised THEN ExceptHandler(r)
    ELSE [outcome |-> "returned",
          structured |-> TryBlock(r).structured,
          raw |-> TryBlock(r).raw]

\* ------------------------------------------------------- normalizer inputs
Id == StrV(<<"i", "d">>, 0)
Name == StrV(<<"n", "a", "m", "e">>, 0)
Extra == StrV(<<"e", "x", "t", "r", "a">>, 0)

\* Values of the columns field: lists of names (none, two, a repeated name,
\* more names than a row has cells), a list of numbers, a number.
ColumnsChoices ==
    { ListV(<<>>), ListV(<<Id, Name>>), ListV(<<Id, Id>>), ListV(<<Id, Name, Extra>>),
      ListV(<<IntV(1), IntV(2)>>), IntV(5) }

\* A list of n rows: rows of two cells, rows of one cell, or rows of two cells
\* of which the last one is a number instead of a row.
RowsOf(n, shape) ==
    ListV([i \in 1..n |->
              CASE shape = "pair" -> ListV(<<IntV(i), StrV(<<"a">>, 0)>>)
                [] shape = "single" -> ListV(<<IntV(i)>>)
                [] shape = "scalar_last" ->
                      IF i = n THEN IntV(i) ELSE ListV(<<IntV(i), StrV(<<"a">>, 0)>>)])

RowsChoices ==
    {RowsOf(n, shape) : n \in 0..MaxRows, shape \in {"pair", "single", "scalar_last"}}
        \cup {IntV(3)}

\* Values of the data field; the strings are 1999, 2000, 2001 and 3000
\* characters long.
DataChoices ==
    { IntV(1), DictV(<<[key |-> "x", val |-> IntV(1)]>>), ListV(<<IntV(1), IntV(2)>>),
      StrV(<<>>, 1999), StrV(<<>>, 2000), StrV(<<>>, 2001), StrV(<<>>, 3000) }

\* Values of a field the normalizer does not look for.
StatusChoices == { StrV(<<"o", "k">>, 0), StrV(<<>>, 1500), BadV }

\* The dict with the given fields, in the order columns, rows, data, status.
Mapping(c, rw, d, st) ==
    DictV(SelectSeq(<< [key |-> "columns", val |-> c], [key |-> "rows", val |-> rw],
                       [key |-> "data", val |-> d], [key |-> "status", val |-> st] >>,
                    LAMBDA e : e.val # Absent))

Mappings ==
    { Mapping(c, rw, d, st) :
        c \in ColumnsChoices \cup {Absent}, rw \in RowsChoices \cup {Absent},
        d \in DataChoices \cup {Absent}, st \in StatusChoices \cup {Absent} }

\* Inputs that are no dict: strings (short and 1500 characters longer, with
\* and without the field names in them), lists, a number, None, a bad object.
NonMappings ==
    { StrV(<<"u", "n", "e", "x", "p", "e", "c", "t", "e", "d", " ",
             "s", "c", "a", "l", "a", "r">>, pad) : pad \in {0, 1500} }
    \cup { StrV(<<"r", "o", "w", "s", " ", "c", "o", "l", "u", "m", "n", "s">>, pad) :
             pad \in {0, 1500} }
    \cup { StrV(<<"n", "o", " ", "d", "a", "t", "a">>, pad) : pad \in {0, 1500} }
    \cup { ListV(<<StrV(KeyChars("data"), 0)>>),
           ListV(<<StrV(KeyChars("rows"), 0), StrV(KeyChars("columns"), 0)>>),
           ListV(<<IntV(1), IntV(2)>>),
           IntV(7), NoneV, BadV }

ToolResults == Mappings \cup NonMappings

InitNormalize ==
    /\ pc = "start"
    /\ query = <<>>
    /\ query_type = "unset"
    /\ results \in ToolResults
    /\ output = NoOutput
    /\ ConfigIdle
    /\ ToolsetsIdle
    /\ SessionIdle

\* The caller invokes format_retrieval_results(results).
Format ==
    /\ pc = "start"
    /\ output' = format_retrieval_results(results)
    /\ pc' = "formatted"
    /\ UNCHANGED <<query, query_type, results, config_vars, toolset_vars, session_vars>>

NextNormalize == Format

SpecNormalize == InitNormalize /\ [][NextNormalize]_vars

\* =========================================================== configuration
\* A short text (a value of an environment variable, a configuration field).
TextV(t) == [k |-> "text", t |-> t]

\* os.getenv(name, default)
getenv(e, name, default) == IF e[name] = Unset THEN default ELSE e[name]

BoolV(b) == [k |-> "bool", b |-> b]

\* Truth value of a value: unset (None), "", False, {} and [] are false.
Truthy(v) ==
    /\ v # Unset /\ v # NoneV /\ v # TextV("") /\ v # StrV(<<>>, 0) /\ v # BoolV(FALSE)
    /\ v # DictV(<<>>) /\ v # ListV(<<>>)

ServerA == DictV(<<[key |-> "url", val |-> TextV("a")]>>)
ServerB == DictV(<<[key |-> "url", val |-> TextV("b")], [key |-> "auth", val |-> BoolV(TRUE)]>>)

\* json.loads on the texts MCP_SERVERS_JSON takes here: the parsed value, or
\* JSONDecodeError.
JsonLoads(text) ==
    CASE text = TextV("[]") -> [ok |-> TRUE, val |-> ListV(<<>>)]
      [] text = TextV("[{\"url\": \"a\"}]") -> [ok |-> TRUE, val |-> ListV(<<ServerA>>)]
      [] text = TextV("[{\"url\": \"a\"}, {\"url\": \"b\", \"auth\": true}]") ->
            [ok |-> TRUE, val |-> ListV(<<ServerA, ServerB>>)]
      [] text = TextV("{\"url\": \"a\"}") -> [ok |-> TRUE, val |-> ServerA]
      [] OTHER -> [ok |-> FALSE]

load_mcp_config(e) ==
    IF ~Truthy(e.MCP_SERVERS_JSON) THEN ListV(<<>>)
    ELSE IF ~JsonLoads(e.MCP_SERVERS_JSON).ok THEN ListV(<<>>)
    ELSE IF JsonLoads(e.MCP_SERVERS_JSON).val.k # "list" THEN ListV(<<>>)
    ELSE JsonLoads(e.MCP_SERVERS_JSON).val

get_model_config(e) ==
    LET model_type == getenv(e, "MODEL_TYPE", StrV(<<"v", "l", "l", "m">>, 0))
        deepseek_api_key == getenv(e, "DEEPSEEK_API_KEY", NoneV)
    IN  IF \/ Lower(model_type.s) = <<"d", "e", "e", "p", "s", "e", "e", "k">>
           \/ Truthy(deepseek_api_key)
        THEN [type |-> "deepseek", model |-> TextV("deepseek/deepseek-chat"),
              api_key |-> deepseek_api_key, name |-> "deepseek_agent"]
        ELSE [type |-> "vllm",
              model |-> getenv(e, "VLLM_MODEL_NAME", TextV("openai/mistral-large:123b")),
              api_base |-> getenv(e, "VLLM_BASE_URL", TextV("http://localhost:9000/v1")),
              api_key |-> getenv(e, "VLLM_API_KEY", TextV("EMPTY")),
              name |-> "vllm_agent"]

\* The global is loaded on every call, whether it is set or not.
load_if_none_always(current, loaded) == loaded

\* if X is None: X = load(): a global that is set is kept.
load_if_none(current, loaded) == IF current = NoneV THEN loaded ELSE current

\* The values the environment variables take.
EnvironChoices ==
    [MCP_SERVERS_JSON :
        {Unset, TextV(""), TextV("not json"), TextV("{\"url\": \"a\"}"), TextV("[]"),
         TextV("[{\"url\": \"a\"}]"),
         TextV("[{\"url\": \"a\"}, {\"url\": \"b\", \"auth\": true}]")},
     MODEL_TYPE :
        {Unset, StrV(<<"v", "l", "l", "m">>, 0),
         StrV(<<"D", "e", "e", "p", "S", "e", "e", "k">>, 0)},
     DEEPSEEK_API_KEY : {Unset, TextV(""), TextV("sk")},
     VLLM_MODEL_NAME : {Unset, TextV("m")},
     VLLM_BASE_URL : {Unset},
     VLLM_API_KEY : {Unset}]

InitConfig ==
    /\ pc = "start"
    /\ query = <<>>
    /\ query_type = "unset"
    /\ results = NoResults
    /\ output = NoOutput
    /\ environ \in EnvironChoices
    /\ MCP_SERVERS = NoneV
    /\ MODEL_CONFIG = NoneV
    /\ config_ret = NoneV
    /\ config_calls = 0
    /\ agent_config = NoneV
    /\ ToolsetsIdle
    /\ SessionIdle

\* The environment changes between two calls.
SetEnviron ==
    /\ \E e \in EnvironChoices :
          /\ e # environ
          /\ \E name \in DOMAIN e : \A other \in DOMAIN e \ {name} : e[other] = environ[other]
          /\ environ' = e
    /\ UNCHANGED <<pc, query, query_type, results, output,
                   MCP_SERVERS, MODEL_CONFIG, config_ret, config_calls, agent_config,
                   toolset_vars, session_vars>>

\* initialize_configurations(): at the end of the module and from
\* create_sub_agents.
InitializeConfigurations ==
    /\ config_calls < MaxConfigCalls
    /\ MCP_SERVERS' = load_if_none(MCP_SERVERS, load_mcp_config(environ))
    /\ MODEL_CONFIG' = load_if_none(MODEL_CONFIG, get_model_config(environ))
    /\ config_ret' = [servers |-> MCP_SERVERS', model |-> MODEL_CONFIG']
    /\ config_calls' = config_calls + 1
    /\ UNCHANGED <<pc, query, query_type, results, output, environ, agent_config,
                   toolset_vars, session_vars>>

\* create_sub_agents(), called once the module has run initialize_configurations:
\* it loads the configuration if a global is None, and builds the retrieval
\* agent from the globals.
CreateSubAgents ==
    /\ config_calls > 0
    /\ IF MCP_SERVERS = NoneV \/ MODEL_CONFIG = NoneV
       THEN /\ MCP_SERVERS' = load_if_none(MCP_SERVERS, load_mcp_config(environ))
            /\ MODEL_CONFIG' = load_if_none(MODEL_CONFIG, get_model_config(environ))
            /\ config_ret' = [servers |-> MCP_SERVERS', model |-> MODEL_CONFIG']
       ELSE UNCHANGED <<MCP_SERVERS, MODEL_CONFIG, config_ret>>
    /\ agent_config' = [mcp_servers |-> MCP_SERVERS', model_config |-> MODEL_CONFIG']
    /\ UNCHANGED <<pc, query, query_type, results, output, environ, config_calls,
                   toolset_vars, session_vars>>

NextConfig == SetEnviron \/ InitializeConfigurations \/ CreateSubAgents

SpecConfig == InitConfig /\ [][NextConfig]_vars

\* ================================================================ toolsets
\* d.get(key, default)
DictGet(d, key, default) == IF HasKey(d, key) THEN Get(d, key) ELSE default

\* What requests.post did: it raised a RequestException, or it returned a
\* response with a status code.
Responses ==
    {[raised |-> FALSE, status_code |-> 499],
     [raised |-> FALSE, status_code |-> 500],
     [raised |-> TRUE, status_code |-> 0]}

\* The test without the check of the token.
test_mcp_connection_any_token(requires_auth, auth_token, response) ==
    IF response.raised THEN FALSE
    ELSE IF response.status_code >= 500 THEN FALSE
    ELSE TRUE

test_mcp_connection(requires_auth, auth_token, response) ==
    IF requires_auth /\ ~Truthy(auth_token) THEN FALSE
    ELSE IF response.raised THEN FALSE
    ELSE IF response.status_code >= 500 THEN FALSE
    ELSE TRUE

\* {"Authorization": f"{scheme} {token}"}
AuthorizationHeader(scheme, token) ==
    [Authorization |-> [scheme |-> scheme, token |-> token]]

\* The toolsets after the first n servers of the loop.
RECURSIVE create_mcp_toolsets_upto(_, _, _, _)
create_mcp_toolsets_upto(s, e, net, n) ==
    IF n = 0 THEN <<>>
    ELSE LET before == create_mcp_toolsets_upto(s, e, net, n - 1)
             server == s[n]
             url == DictGet(server, "url", NoneV)
             requires_auth == Truthy(DictGet(server, "auth", BoolV(FALSE)))
             token == getenv(e, "MCP_AUTH_TOKEN", NoneV)
             scheme == getenv(e, "MCP_AUTH_SCHEME", TextV("Bearer"))
             headers == IF requires_auth THEN AuthorizationHeader(scheme, token)
                        ELSE NoneV
         IN  IF ~Truthy(url) THEN before
             ELSE IF ~test_mcp_connection(requires_auth, token, net[n].response)
                  THEN before
             ELSE IF ~net[n].constructs THEN before
             ELSE Append(before, [url |-> url, headers |-> headers])

create_mcp_toolsets(s, e, net) == create_mcp_toolsets_upto(s, e, net, Len(s))

\* The server entries: without a url, with an empty url, open, requiring auth.
ServerChoices ==
    {DictV(<<[key |-> "auth", val |-> BoolV(TRUE)]>>),
     DictV(<<[key |-> "url", val |-> TextV("")]>>),
     ServerA,
     ServerB}

SeqsUpTo(S, n) == UNION {[1..m -> S] : m \in 0..n}

InitToolsets ==
    /\ pc = "start"
    /\ query = <<>>
    /\ query_type = "unset"
    /\ results = NoResults
    /\ output = NoOutput
    /\ ConfigIdle
    /\ servers \in SeqsUpTo(ServerChoices, MaxServers)
    /\ auth_environ \in [MCP_AUTH_TOKEN : {Unset, TextV(""), TextV("t")},
                         MCP_AUTH_SCHEME : {Unset}]
    /\ network = <<>>
    /\ toolsets = NoneV
    /\ SessionIdle

\* create_mcp_toolsets(servers): the whole loop; for each server the network
\* answers the test and the construction of the toolset succeeds or raises.
CreateMcpToolsets ==
    /\ pc = "start"
    /\ \E net \in [DOMAIN servers -> [response : Responses, constructs : BOOLEAN]] :
          /\ network' = net
          /\ toolsets' = ListV(create_mcp_toolsets(servers, auth_environ, net))
    /\ pc' = "created"
    /\ UNCHANGED <<query, query_type, results, output, config_vars,
                   servers, auth_environ, session_vars>>

NextToolsets == CreateMcpToolsets

SpecToolsets == InitToolsets /\ [][NextToolsets]_vars

\* ================================================================= session
\* A user message: its parts, each with a text or without one (text is None).
Content(parts) == [k |-> "content", parts |-> parts]

extract_query_from_content(content) ==
    IF Truthy(content) /\ content.parts # <<>> THEN content.parts[1].text
    ELSE StrV(<<>>, 0)

\* os.path.getmtime(__file__)
Mtime == [k |-> "float"]

\* The callback with the assignments of the else branch that the source has
\* as comments.
root_before_callback_defaults(st, content, mtime_ok) ==
    LET user_query == extract_query_from_content(content)
    IN  IF Truthy(user_query)
        THEN [state |-> [st EXCEPT !.original_user_query = user_query,
                                   !.current_query = user_query,
                                   !.query_type = TextV(determine_query_type(user_query.s)),
                                   !.query_timestamp =
                                       IF mtime_ok THEN Mtime ELSE st.query_timestamp],
              classified |-> TRUE, raised |-> FALSE]
        ELSE [state |-> [st EXCEPT !.original_user_query =
                                       StrV(<<"U", "n", "k", "n", "o", "w", "n", " ",
                                              "q", "u", "e", "r", "y">>, 0),
                                   !.query_type = TextV("retrieval")],
              classified |-> FALSE, raised |-> FALSE]

\* root_before_callback: the state it leaves, whether it ran
\* determine_query_type and wrote query_type, and whether it raised. The whole
\* body is inside try/except Exception; getmtime is the one call that can fail
\* after the query was extracted, and the three keys are written before it.
root_before_callback(st, content, mtime_ok) ==
    LET user_query == extract_query_from_content(content)
    IN  IF Truthy(user_query)
        THEN [state |-> [st EXCEPT !.original_user_query = user_query,
                                   !.current_query = user_query,
                                   !.query_type = TextV(determine_query_type(user_query.s)),
                                   !.query_timestamp =
                                       IF mtime_ok THEN Mtime ELSE st.query_timestamp],
              classified |-> TRUE, raised |-> FALSE]
        ELSE [state |-> st, classified |-> FALSE, raised |-> FALSE]

\* state.get(key, '')
StateGet(st, key) == IF st[key] = Absent THEN StrV(<<>>, 0) ELSE st[key]

\* retrieval_before_callback: callback_context has no current_message, so the
\* fallback of the else branch writes nothing.
retrieval_before_callback(st) ==
    LET user_query == StateGet(st, "original_user_query")
    IN  IF Truthy(user_query)
        THEN [state |-> [st EXCEPT !.retrieval_query = user_query], raised |-> FALSE]
        ELSE [state |-> st, raised |-> FALSE]

chart_keywords ==
    << <<"c", "h", "a", "r", "t">>,
       <<"g", "r", "a", "p", "h">>,
       <<"p", "l", "o", "t">>,
       <<"v", "i", "s", "u", "a", "l", "i", "z", "e">>,
       <<"b", "a", "r">>,
       <<"l", "i", "n", "e">>,
       <<"p", "i", "e">>,
       <<"s", "c", "a", "t", "t", "e", "r">>,
       <<"h", "i", "s", "t", "o", "g", "r", "a", "m">> >>

needs_chart(user_query) ==
    \E i \in DOMAIN chart_keywords : Contains(Lower(user_query.s), chart_keywords[i])

\* The tool response is one the callback formats.
Formats(tool_response) == Truthy(tool_response) /\ tool_response.k = "dict"

\* retrieval_after_tool_callback: the state it leaves, whether it stored the
\* formatted response, what it returns, and whether it raised; an exception of
\* format_retrieval_results is caught.
retrieval_after_tool_callback(st, tool_response) ==
    IF Formats(tool_response)
    THEN LET formatted == format_retrieval_results(tool_response)
         IN  IF formatted.outcome = "raised"
             THEN [state |-> st, stored |-> FALSE, ret |-> NoneV, raised |-> FALSE]
             ELSE [state |->
                      [st EXCEPT !.retrieved_raw_data = formatted.raw,
                                 !.retrieved_data =
                                     [structured |-> formatted.structured,
                                      needs_chart |->
                                          needs_chart(StateGet(st, "original_user_query"))]],
                   stored |-> TRUE, ret |-> NoneV, raised |-> FALSE]
    ELSE [state |-> st, stored |-> FALSE, ret |-> NoneV, raised |-> FALSE]

\* Agent(output_key="retrieved_data"): the text of the agent's final response
\* is saved in the state under output_key; a final response without content
\* saves nothing.
save_output_to_state(st, final) ==
    IF final = NoneV THEN st ELSE [st EXCEPT !.retrieved_data = final]

\* ---------------------------------------------------------- session inputs
SessionQueries ==
    { <<"s", "h", "o", "w">>,
      <<"B", "a", "r", " ", "C", "H", "A", "R", "T">> }

\* What a turn brings: no content, a message without parts, a part without
\* text (an image), an empty text, a query, an image followed by a query.
ContentChoices ==
    { NoneV, Content(<<>>), Content(<<[text |-> NoneV]>>),
      Content(<<[text |-> StrV(<<>>, 0)]>>),
      Content(<<[text |-> NoneV], [text |-> StrV(<<"s", "h", "o", "w">>, 0)]>>) }
    \cup { Content(<<[text |-> StrV(q, 0)]>>) : q \in SessionQueries }

\* What a retrieval tool returns: None, an empty dict, a value that is no
\* dict, a table, a data payload, a dict that makes the formatter raise.
ToolResponses ==
    { NoneV, DictV(<<>>), ListV(<<IntV(1), IntV(2)>>),
      Mapping(ListV(<<Id, Name>>), RowsOf(2, "pair"), Absent, Absent),
      Mapping(Absent, Absent, ListV(<<IntV(1), IntV(2)>>), Absent),
      Mapping(Absent, Absent, Absent, BadV) }

\* The final response of the retrieval agent: without content, or a text.
FinalResponses == { NoneV, StrV(<<"d", "o", "n", "e">>, 0) }

Init ==
    /\ pc = "idle"
    /\ query = <<>>
    /\ query_type = "unset"
    /\ results = NoResults
    /\ output = NoOutput
    /\ ConfigIdle
    /\ ToolsetsIdle
    /\ SessionIdle

\* A user turn starts: the framework runs root_before_callback before the
\* root agent.
RootBeforeCallback ==
    /\ pc = "idle"
    /\ turns < MaxTurns
    /\ \E content \in ContentChoices, mtime_ok \in BOOLEAN :
          /\ user_content' = content
          /\ state' = root_before_callback(state, content, mtime_ok).state
          /\ cb_raised' = (cb_raised \/ root_before_callback(state, content, mtime_ok).raised)
          /\ classified' = root_before_callback(state, content, mtime_ok).classified
    /\ turns' = turns + 1
    /\ pc' = "root"
    /\ UNCHANGED <<query, query_type, results, output, config_vars, toolset_vars,
                   tool_calls, last_stored, delivered>>

\* The root agent dispatches the retrieval agent: the framework runs
\* retrieval_before_callback before it.
RetrievalBeforeCallback ==
    /\ pc = "root"
    /\ state' = retrieval_before_callback(state).state
    /\ cb_raised' = (cb_raised \/ retrieval_before_callback(state).raised)
    /\ last_stored' = IF last_stored = NoneV THEN NoneV
                      ELSE [last_stored EXCEPT !.in_run = FALSE]
    /\ pc' = "retrieval"
    /\ UNCHANGED <<query, query_type, results, output, config_vars, toolset_vars,
                   user_content, turns, tool_calls, classified, delivered>>

\* A tool of the retrieval agent returned: the framework runs
\* retrieval_after_tool_callback and gives the agent the callback's result if
\* it is not None, and the tool's response otherwise.
AfterToolCallback ==
    /\ pc = "retrieval"
    /\ tool_calls < MaxToolCalls
    /\ \E tool_response \in ToolResponses :
          LET r == retrieval_after_tool_callback(state, tool_response)
          IN  /\ state' = r.state
              /\ cb_raised' = (cb_raised \/ r.raised)
              /\ delivered' = [response |-> tool_response,
                               got |-> IF r.ret = NoneV THEN tool_response ELSE r.ret]
              /\ last_stored' =
                    IF r.stored
                    THEN [response |-> tool_response,
                          user_query |-> StateGet(state, "original_user_query"),
                          classified |-> classified,
                          in_run |-> TRUE]
                    ELSE last_stored
    /\ tool_calls' = tool_calls + 1
    /\ UNCHANGED <<pc, query, query_type, results, output, config_vars, toolset_vars,
                   user_content, turns, classified>>

\* The retrieval agent gives its final response and the root agent goes on.
RetrievalFinish ==
    /\ pc = "retrieval"
    /\ \E final \in FinalResponses : state' = save_output_to_state(state, final)
    /\ pc' = "root"
    /\ UNCHANGED <<query, query_type, results, output, config_vars, toolset_vars,
                   user_content, turns, tool_calls, classified, last_stored, delivered,
                   cb_raised>>

\* The root agent answers the user: the turn is over.
RootAnswers ==
    /\ pc = "root"
    /\ pc' = "idle"
    /\ UNCHANGED <<query, query_type, results, output, config_vars, toolset_vars,
                   session_vars>>

Next ==
    \/ RootBeforeCallback
    \/ RetrievalBeforeCallback
    \/ AfterToolCallback
    \/ RetrievalFinish
    \/ RootAnswers

Spec == Init /\ [][Next]_vars

\* ====================================================== classifier claims
\* A keyword occurs in a text when its characters stand at consecutive
\* positions of the text, wherever that is (inside a longer word too).
Occurs(keyword, text) ==
    \E i \in 1..Len(text) :
        /\ i + Len(keyword) - 1 <= Len(text)
        /\ \A j \in 1..Len(keyword) : text[i + j - 1] = keyword[j]

MentionsAnalysis(q) == \E i \in DOMAIN analysis_keywords : Occurs(analysis_keywords[i], Lower(q))
MentionsRetrieval(q) == \E i \in DOMAIN retrieval_keywords : Occurs(retrieval_keywords[i], Lower(q))
MentionsContext(q) == \E i \in DOMAIN context_keywords : Occurs(context_keywords[i], Lower(q))

UpperChar(c) ==
    IF \E i \in DOMAIN LowerLetters : LowerLetters[i] = c
    THEN UpperLetters[CHOOSE i \in DOMAIN LowerLetters : LowerLetters[i] = c]
    ELSE c

SwapChar(c) == IF LowerChar(c) = c THEN UpperChar(c) ELSE LowerChar(c)

\* Queries that differ from q only in letter case: all lower, all upper, every
\* letter's case swapped, and every second character's case swapped.
CaseVariants(q) ==
    { Lower(q),
      [i \in DOMAIN q |-> UpperChar(q[i])],
      [i \in DOMAIN q |-> SwapChar(q[i])],
      [i \in DOMAIN q |-> IF i % 2 = 0 THEN SwapChar(q[i]) ELSE q[i]] }

\* C1: a query that contains at least one analysis keyword and at least one
\* retrieval keyword is classified "analysis" (analysis takes priority).
C1_BothIsAnalysis ==
    (pc = "classified" /\ MentionsAnalysis(query) /\ MentionsRetrieval(query))
        => query_type = "analysis"

C1_Witness ==
    /\ pc = "classified"
    /\ MentionsAnalysis(query) /\ MentionsRetrieval(query)
    /\ query_type = "analysis"

\* C2: a query with a retrieval keyword and no analysis keyword is classified
\* "retrieval"; a query with an analysis keyword and no retrieval keyword is
\* classified "analysis".
C2_OnlyOneKeywordSet ==
    pc = "classified" =>
        /\ (MentionsRetrieval(query) /\ ~MentionsAnalysis(query)) => query_type = "retrieval"
        /\ (MentionsAnalysis(query) /\ ~MentionsRetrieval(query)) => query_type = "analysis"

C2_Witness ==
    /\ pc = "classified"
    /\ MentionsRetrieval(query) /\ ~MentionsAnalysis(query)
    /\ Len(query) > 8
    /\ query_type = "retrieval"

\* C3: a query that matches neither keyword set is classified "retrieval" if
\* its lower-cased text contains one of data, table, database, sales, customer
\* and "analysis" otherwise; the empty query is classified "analysis".
C3_NeitherUsesContext ==
    pc = "classified" =>
        /\ (~MentionsAnalysis(query) /\ ~MentionsRetrieval(query)) =>
              query_type = (IF MentionsContext(query) THEN "retrieval" ELSE "analysis")
        /\ query = <<>> => query_type = "analysis"

C3_Witness ==
    /\ pc = "classified"
    /\ ~MentionsAnalysis(query) /\ ~MentionsRetrieval(query)
    /\ MentionsContext(query)
    /\ query_type = "retrieval"

\* C4: the classifier is total: the call on any query, the empty one included,
\* returns one of the two values "retrieval" and "analysis"; it has no other
\* outcome.
C4_Total ==
    pc = "classified" => query_type \in {"retrieval", "analysis"}

C4_Witness ==
    /\ pc = "classified"
    /\ query = <<>>
    /\ query_type = "analysis"

\* C5: keyword hits are case-insensitive substring hits: a query that differs
\* from the classified one only in letter case gets the same intent, and a
\* keyword that occurs anywhere in the query, inside a longer word too, is a
\* hit for its keyword set.
C5_CaseInsensitiveSubstring ==
    pc = "classified" =>
        /\ \A v \in CaseVariants(query) : determine_query_type(v) = query_type
        /\ MentionsAnalysis(query) => query_type = "analysis"
        /\ (MentionsRetrieval(query) /\ ~MentionsAnalysis(query)) => query_type = "retrieval"
        /\ has_analysis(query) <=> MentionsAnalysis(query)
        /\ has_retrieval(query) <=> MentionsRetrieval(query)
        /\ has_context(query) <=> MentionsContext(query)

\* "DATA" followed by "base": the retrieval keyword data inside database, in
\* upper case.
C5_Witness ==
    /\ pc = "classified"
    /\ query = <<"D", "A", "T", "A", "b", "a", "s", "e">>
    /\ query_type = "retrieval"

\* ====================================================== normalizer claims
\* The shapes of a tool result (spec section 3 and 4.2).  Tabular: a columns
\* field that is a sequence of strings and a rows field that is a sequence of
\* rows, each a sequence of cells.  Generic: a data field, the tabular shape
\* not matched.  Opaque: anything else, a value without fields included.
HasField(r, key) == r.k = "dict" /\ HasKey(r, key)

IsSeqOfStrings(v) == v.k = "list" /\ \A i \in DOMAIN v.items : v.items[i].k = "str"

IsSeqOfSeqs(v) == v.k = "list" /\ \A i \in DOMAIN v.items : v.items[i].k = "list"

IsTabular(r) ==
    /\ HasField(r, "columns") /\ HasField(r, "rows")
    /\ IsSeqOfStrings(Get(r, "columns"))
    /\ IsSeqOfSeqs(Get(r, "rows"))

IsGeneric(r) == HasField(r, "data") /\ ~IsTabular(r)

IsOpaque(r) == ~IsTabular(r) /\ ~IsGeneric(r)

\* The lines "Row i: ..." of a table's raw text, in the order of the text.
RowLinesOf(raw) == SelectSeq(raw.lines, LAMBDA l : l.line = "Row")

\* C6: for a tabular input (a columns field, a sequence of strings, and a rows
\* field, a sequence of rows, both present) the normalizer returns a structured
\* view of type table whose headers are the input columns, whose rows are the
\* input rows, whose row_count is the number of rows and whose column_count is
\* the number of columns.
C6_TableStructured ==
    (pc = "formatted" /\ IsTabular(results)) =>
        /\ output.outcome = "returned"
        /\ output.structured =
              [type |-> "table",
               headers |-> Get(results, "columns"),
               rows |-> Get(results, "rows"),
               row_count |-> Len(Get(results, "rows").items),
               column_count |-> Len(Get(results, "columns").items)]

\* A table of three columns and two rows.
C6_Witness ==
    /\ pc = "formatted"
    /\ IsTabular(results)
    /\ Len(Get(results, "columns").items) = 3
    /\ Len(Get(results, "rows").items) = 2
    /\ output.outcome = "returned"
    /\ output.structured.type = "table"
    /\ output.structured.row_count = 2
    /\ output.structured.column_count = 3

\* C7: for a tabular input with n rows and c columns the raw text starts with
\* the line "Retrieved n rows with c columns" and has exactly min(5, n) row
\* lines, labelled Row 1 .. Row min(5, n), the line Row i showing cells of the
\* i-th row of the input under its column names; with n = 0 it has the line
\* "Sample rows (0 of 0):" and no row line.
C7_TableRaw ==
    (pc = "formatted" /\ IsTabular(results)) =>
        LET columns == Get(results, "columns").items
            rows == Get(results, "rows").items
            n == Len(rows)
            shown == IF n < 5 THEN n ELSE 5
        IN  /\ output.outcome = "returned"
            /\ output.raw.text = "table"
            /\ output.raw.lines[1] =
                  [line |-> "Retrieved", rows |-> n, columns |-> Len(columns)]
            /\ Len(RowLinesOf(output.raw)) = shown
            /\ \A i \in 1..shown :
                  LET l == RowLinesOf(output.raw)[i]
                  IN  /\ l.no = i
                      /\ (columns # <<>> /\ rows[i].items # <<>>) => l.cells # <<>>
                      /\ \A e \in Range(l.cells) :
                            \E j \in DOMAIN columns \cap DOMAIN rows[i].items :
                                columns[j] = e.key /\ rows[i].items[j] = e.val
            /\ n = 0 =>
                  /\ \E i \in DOMAIN output.raw.lines :
                        output.raw.lines[i] = [line |-> "Sample rows", shown |-> 0, of |-> 0]
                  /\ RowLinesOf(output.raw) = <<>>

\* A table of six rows: five of them are shown.
C7_Witness ==
    /\ pc = "formatted"
    /\ IsTabular(results)
    /\ Len(Get(results, "rows").items) = 6
    /\ Len(Get(results, "columns").items) = 2
    /\ output.outcome = "returned"
    /\ output.raw.text = "table"
    /\ Len(RowLinesOf(output.raw)) = 5

\* C8: for a generic input (a data field present, the tabular shape not
\* matched) the normalizer returns a structured view of type json that wraps
\* the data value unchanged, and a raw text that is the first 2000 characters
\* of str(data): the whole rendering when it has at most 2000 characters,
\* exactly 2000 characters when it is longer.
C8_GenericIsJson ==
    (pc = "formatted" /\ IsGeneric(results)) =>
        /\ output.outcome = "returned"
        /\ output.structured = [type |-> "json", data |-> Get(results, "data")]
        /\ output.raw =
              [text |-> "str", of |-> Get(results, "data"),
               len |-> IF StrLen(Get(results, "data")) <= 2000
                       THEN StrLen(Get(results, "data")) ELSE 2000]

\* C9: for an input that is neither tabular nor generic, a value that is no
\* mapping included, the normalizer returns structured = None and a raw text
\* that is str(input) cut to at most 1000 characters.  Stated for the inputs
\* that are opaque however the shapes are told apart (no data field and not
\* both a columns and a rows field; a value without fields has none of them)
\* and that have a string rendering (an input without one is the case of C10).
C9_OpaqueIsTruncated ==
    (/\ pc = "formatted"
     /\ IsOpaque(results)
     /\ ~HasField(results, "data")
     /\ ~(HasField(results, "columns") /\ HasField(results, "rows"))
     /\ Renders(results)) =>
        /\ output.outcome = "returned"
        /\ output.structured = NoneStructured
        /\ output.raw =
              [text |-> "str", of |-> results,
               len |-> IF StrLen(results) <= 1000 THEN StrLen(results) ELSE 1000]

\* C10: the normalizer never raises to its caller: for every input it returns
\* a result, and when a step of it fails the result is structured = None with
\* raw = str(input).
C10_NeverRaises ==
    pc = "formatted" =>
        /\ output.outcome = "returned"
        /\ TryBlock(results).raised =>
              /\ output.structured = NoneStructured
              /\ output.raw = [text |-> "str", of |-> results, len |-> StrLen(results)]

\* C11: the raw view is a bounded text: for every input that does not produce
\* a table, whichever branch or fallback handles it, the returned raw text has
\* at most 2000 characters.
C11_RawIsBounded ==
    (/\ pc = "formatted"
     /\ output.outcome = "returned"
     /\ output.structured.type # "table") =>
        output.raw.len <= 2000

\* C12: shape detection is first match wins on the detected shape: the table
\* variant is produced exactly when the input is tabular (a data field may be
\* there too); otherwise the json variant exactly when a data field is
\* present; otherwise structured is None.  Stated for the inputs that have a
\* string rendering (an input without one is the case of C10).
C12_FirstMatchOnShape ==
    (pc = "formatted" /\ Renders(results)) =>
        /\ output.outcome = "returned"
        /\ output.structured.type =
              (IF IsTabular(results) THEN "table"
               ELSE IF HasField(results, "data") THEN "json"
               ELSE "None")
        /\ (HasField(results, "data") /\ ~IsTabular(results)) =>
              output.structured = [type |-> "json", data |-> Get(results, "data")]

\* ==================================================== configuration claims
\* C17: the configurations are loaded once: after the first call of
\* initialize_configurations both MCP_SERVERS and MODEL_CONFIG are set (not
\* None), and every later call of initialize_configurations or
\* create_sub_agents leaves both as they are, whatever the environment says
\* by then, and returns or uses the same values.
C17_LoadedOnce ==
    /\ [](config_calls > 0 => (MCP_SERVERS # NoneV /\ MODEL_CONFIG # NoneV))
    /\ [][config_calls > 0 =>
            /\ MCP_SERVERS' = MCP_SERVERS
            /\ MODEL_CONFIG' = MODEL_CONFIG
            /\ config_calls' > config_calls =>
                  config_ret' = [servers |-> MCP_SERVERS, model |-> MODEL_CONFIG]
            /\ agent_config' # agent_config =>
                  agent_config' = [mcp_servers |-> MCP_SERVERS, model_config |-> MODEL_CONFIG]
       ]_vars

\* A second call made after the environment changed: the server list loaded
\* first is still there and is what the call returned.
C17_Witness ==
    /\ config_calls = 2
    /\ environ.MCP_SERVERS_JSON = TextV("[{\"url\": \"a\"}, {\"url\": \"b\", \"auth\": true}]")
    /\ environ.MODEL_TYPE = StrV(<<"D", "e", "e", "p", "S", "e", "e", "k">>, 0)
    /\ MCP_SERVERS = ListV(<<ServerA>>)
    /\ MODEL_CONFIG.type = "vllm"
    /\ config_ret = [servers |-> MCP_SERVERS, model |-> MODEL_CONFIG]
    /\ agent_config = [mcp_servers |-> MCP_SERVERS, model_config |-> MODEL_CONFIG]

\* ========================================================== toolset claims
\* Server i of the list has a url, its connectivity test got an HTTP response
\* with a status below 500, it does not require auth without a token, and its
\* toolset could be constructed.
Usable(i) ==
    LET server == servers[i]
        needs_token == HasKey(server, "auth") /\ Get(server, "auth") = BoolV(TRUE)
        token_missing == auth_environ.MCP_AUTH_TOKEN \in {Unset, TextV("")}
    IN  /\ HasKey(server, "url")
        /\ Get(server, "url") # TextV("")
        /\ ~network[i].response.raised
        /\ network[i].response.status_code < 500
        /\ network[i].constructs
        /\ ~(needs_token /\ token_missing)

RECURSIVE UsableUrls(_)
UsableUrls(n) ==
    IF n = 0 THEN <<>>
    ELSE IF Usable(n) THEN Append(UsableUrls(n - 1), Get(servers[n], "url"))
    ELSE UsableUrls(n - 1)

\* C20: create_mcp_toolsets returns, in the order of the input, one toolset
\* for exactly the servers that have a url, passed the connectivity test and
\* whose toolset could be constructed; a failing server does not stop the
\* others, and no toolset (and no Authorization header) is made for a server
\* that requires auth while MCP_AUTH_TOKEN is missing.
C20_ToolsetsOfUsableServers ==
    pc = "created" =>
        /\ toolsets.k = "list"
        /\ [i \in DOMAIN toolsets.items |-> toolsets.items[i].url] =
              UsableUrls(Len(servers))
        /\ \A i \in DOMAIN toolsets.items :
              toolsets.items[i].headers # NoneV =>
                  /\ auth_environ.MCP_AUTH_TOKEN \notin {Unset, TextV("")}
                  /\ toolsets.items[i].headers.Authorization.token =
                        auth_environ.MCP_AUTH_TOKEN
        /\ auth_environ.MCP_AUTH_TOKEN \in {Unset, TextV("")} =>
              \A i \in DOMAIN toolsets.items : toolsets.items[i].url # TextV("b")

\* Three servers, the first failing with a server error, the last requiring
\* auth with a token set: the two others each got a toolset, in order.
C20_Witness ==
    /\ pc = "created"
    /\ servers = <<ServerA, ServerA, ServerB>>
    /\ network[1].response.status_code = 500
    /\ auth_environ.MCP_AUTH_TOKEN = TextV("t")
    /\ Len(toolsets.items) = 2
    /\ toolsets.items[1].headers = NoneV
    /\ toolsets.items[2].url = TextV("b")

\* ========================================================== session claims
\* C14: nothing but the raw text of a normalized retrieval result is put in
\* the session state that a downstream consumer reads: no value of the state
\* holds the structured view (looked at in turns whose query was classified).
C14_OnlyRawTextShared ==
    classified => \A key \in DOMAIN state : "structured" \notin DOMAIN state[key]

\* The message of the turn has a part with a text that is not empty.
HasQueryText(content) ==
    /\ content # NoneV
    /\ \E i \in DOMAIN content.parts : content.parts[i].text \notin {NoneV, StrV(<<>>, 0)}

\* C15: in every user turn that brought a query, the query is classified
\* (query_type written by the root callback in that turn) before the
\* retrieval agent runs, and what the normalizer was given is the response of
\* a tool call that had returned.
C15_ClassifiedBeforeDispatch ==
    /\ (pc = "retrieval" /\ HasQueryText(user_content)) => classified
    /\ last_stored # NoneV =>
          (tool_calls > 0 /\ last_stored.response \in ToolResponses)

\* What the after-tool callback stores for a tool response when the stored
\* query is user_query.
StoredRaw(response) == format_retrieval_results(response).raw
StoredRecord(response, user_query) ==
    [structured |-> format_retrieval_results(response).structured,
     needs_chart |-> \E i \in DOMAIN chart_keywords :
                        Occurs(chart_keywords[i], Lower(user_query.s))]

\* C16: when a run of the retrieval agent in which a tool returned a non-empty
\* dict has ended, the state has the raw text under retrieved_raw_data and
\* the record {structured, needs_chart} under retrieved_data (for tool calls
\* of turns whose query was classified).
C16_ToolResultsKept ==
    (/\ pc \in {"root", "idle"}
     /\ last_stored # NoneV
     /\ last_stored.classified
     /\ last_stored.in_run) =>
        /\ state.retrieved_raw_data = StoredRaw(last_stored.response)
        /\ state.retrieved_data =
              StoredRecord(last_stored.response, last_stored.user_query)

\* The content of a turn has a first part with a non-empty text.
Extractable(content) ==
    /\ content # NoneV
    /\ Len(content.parts) > 0
    /\ content.parts[1].text \notin {NoneV, StrV(<<>>, 0)}

\* C18: whenever query_type is in the state it is
\* determine_query_type(original_user_query) and current_query equals
\* original_user_query; a turn whose query is empty or cannot be extracted
\* leaves the state as it was; the root callback never raises.
C18_RootStateInvariant ==
    /\ [](state.query_type # Absent =>
            /\ state.original_user_query # Absent
            /\ state.query_type =
                  TextV(determine_query_type(state.original_user_query.s))
            /\ state.current_query = state.original_user_query)
    /\ [](~cb_raised)
    /\ [][(pc = "idle" /\ pc' = "root" /\ ~Extractable(user_content')) =>
             state' = state]_vars

\* A second turn that brought an image only, after a turn with a query: the
\* state still has the first turn's query and its type.
C18_Witness ==
    /\ turns = 2
    /\ pc = "root"
    /\ user_content = Content(<<[text |-> NoneV]>>)
    /\ state.original_user_query = StrV(<<"B", "a", "r", " ", "C", "H", "A", "R", "T">>, 0)
    /\ state.query_type = TextV("analysis")
    /\ ~classified

\* C19: after any tool calls, retrieved_raw_data and retrieved_data in the
\* state are the raw text and the record {structured, needs_chart} of the
\* most recent tool response that was a non-empty dict, needs_chart saying
\* whether the stored query names a chart (for tool calls of turns whose query
\* was classified); and the agent gets the tool's own response.
C19_StateIsLastResponse ==
    /\ (last_stored # NoneV /\ last_stored.classified) =>
          /\ state.retrieved_raw_data = StoredRaw(last_stored.response)
          /\ "structured" \in DOMAIN state.retrieved_data
          /\ state.retrieved_data.structured =
                StoredRecord(last_stored.response, last_stored.user_query).structured
          /\ state.retrieved_data.needs_chart =
                StoredRecord(last_stored.response, last_stored.user_query).needs_chart
    /\ delivered # NoneV => delivered.got = delivered.response

====
